---------------------------- MODULE Spec2Model ----------------------------
(***************************************************************************)
(* A model of github.com/wood-jp/xerrors: the generic ExtendedError[T]    *)
(* wrapper with Extend / Extract, and its two consumers, errclass          *)
(* (WrapAs / GetClass) and errcontext (Add / Get / Flatten).              *)
(*                                                                         *)
(* An error value is a record:                                             *)
(*   [k |-> "nil"]                              the nil error interface    *)
(*   [k |-> "base", id |-> n]                   a sentinel (pointer) error *)
(*   [k |-> "wrap", err |-> e]                  *fmt.wrapError (%w)        *)
(*   [k |-> "ext", T |-> t, Data |-> d, err |-> e]   ExtendedError[T]      *)
(* ExtendedError is a struct VALUE in Go, so it is a nested record here.   *)
(* A Context payload is a Go map, i.e. a reference: Data is 0 for the nil  *)
(* map and otherwise an index into heap, the store of allocated maps.      *)
(* Pointer errors compare by identity; within the one chain the model      *)
(* holds, two *fmt.wrapError links wrap causes of different length, so     *)
(* structural equality of the records coincides with pointer identity.     *)
(***************************************************************************)
EXTENDS Integers, Sequences, FiniteSets, TLC

VARIABLES
    err,      \* the error value the caller holds (result of the last call)
    prev,     \* the error value passed to the last call
    heap,     \* the allocated Context maps: heap[ref] is a map's contents
    last,     \* the last call: its name and its arguments
    written,  \* ghost: for every key written through Add, the last value
    tracked,  \* ghost: the error was built from a Context-free error by
              \* Add and wrappers of other kinds only
    steps,    \* calls made so far
    callers,  \* for every concurrent caller sharing err: where it is in
              \* its call of Add or Get, and what it has read
    fatal     \* the runtime stopped the program on a detected map race

vars == <<err, prev, heap, last, written, tracked, steps, callers, fatal>>

\* ------------------------------------------------------------- bounds ----
MaxSteps == 3    \* calls made on the error, one after the other
MaxAttrs == 2    \* attrs passed to one Add call
MaxOpts == 2     \* options passed to one WrapAs call

\* ---------------------------------------------------- errclass constants --
Nil == -1
Unknown == 0
Transient == 1
Persistent == 2
Panic == 3

Class == {Nil, Unknown, Transient, Persistent, Panic}

wrappingRestrictionNone == 0
wrappingRestrictionOnlyUnknown == 1
wrappingRestrictionOnlyMoreSevere == 2

\* A WrapOption is a function that sets the restriction of the options.
WithUnrestricted(opt) == [opt EXCEPT !.restriction = wrappingRestrictionNone]
WithOnlyUnknown(opt) == [opt EXCEPT !.restriction = wrappingRestrictionOnlyUnknown]
WithOnlyMoreSevere(opt) == [opt EXCEPT !.restriction = wrappingRestrictionOnlyMoreSevere]

WrapOption == {"WithUnrestricted", "WithOnlyUnknown", "WithOnlyMoreSevere"}

ApplyOption(name, opt) ==
    CASE name = "WithUnrestricted" -> WithUnrestricted(opt)
      [] name = "WithOnlyUnknown" -> WithOnlyUnknown(opt)
      [] name = "WithOnlyMoreSevere" -> WithOnlyMoreSevere(opt)

\* ------------------------------------------------------------ inputs ----
\* Payload types: Class and Context are the consumers' types; A and B are
\* two nominally distinct types with the same underlying representation
\* (type A int; type B int).
Types == {"Class", "Context", "A", "B"}
IntVals == {0, 1}
Keys == {1, 2}          \* attr keys, ordered as the strings "one" < "two"
Vals == {1, 2}          \* attr values

NilErr == [k |-> "nil"]
\* var errTest = fmt.Errorf("this is a test error"): a sentinel, compared
\* by pointer identity.
errTest == [k |-> "base", id |-> "errTest"]

EmptyMap == [x \in {} |-> 0]

\* ------------------------------------------------------ xerrors core ----
\* ExtendedError[T]{Data: data, err: err}
ExtendedError(T, data, e) == [k |-> "ext", T |-> T, Data |-> data, err |-> e]

\* fmt.Errorf("...: %w", e): a pointer to a single-cause wrapper.
ForeignWrap(e) == [k |-> "wrap", err |-> e]

\* The single-step cause accessor (ExtendedError.Unwrap, wrapError.Unwrap);
\* nil for an error that wraps nothing.
Unwrap(e) == IF e.k \in {"ext", "wrap"} THEN e.err ELSE NilErr

\* The zero value of a payload type: 0 for the int types, Unknown (0) for
\* Class, the nil map (0) for Context.
Zero(T) == 0

\* Mutant of Extend: the nil check is missing.
ExtendNoNilCheck(T, data, e) == ExtendedError(T, data, e)

\* func Extend[T any](data T, err error) error
Extend(T, data, e) ==
    IF e = NilErr THEN NilErr ELSE ExtendedError(T, data, e)

\* The underlying representation of a payload type (type Class int,
\* type A int, type B int, type Context map[string]slog.Value).
Underlying(T) == IF T = "Context" THEN "map" ELSE "int"

NoMatch(T) == [e |-> ExtendedError(T, Zero(T), NilErr), ok |-> FALSE]

RECURSIVE asTypeInnermost(_, _)
\* Mutant of asType: the match nearest to the root wins.
asTypeInnermost(T, e) ==
    LET below == IF e.k \in {"ext", "wrap"} /\ Unwrap(e) # NilErr
                 THEN asTypeInnermost(T, Unwrap(e))
                 ELSE NoMatch(T)
    IN IF below.ok THEN below
       ELSE IF e.k = "ext" /\ e.T = T THEN [e |-> e, ok |-> TRUE]
       ELSE below

RECURSIVE asTypeAnyPayload(_, _)
\* Mutant of asType: any ExtendedError link matches, whatever its type.
asTypeAnyPayload(T, e) ==
    IF e.k = "ext" THEN [e |-> e, ok |-> TRUE]
    ELSE IF e.k = "wrap" THEN asTypeAnyPayload(T, Unwrap(e))
    ELSE NoMatch(T)

RECURSIVE asTypeStructural(_, _)
\* Mutant of asType: payload types match by underlying representation.
asTypeStructural(T, e) ==
    IF e.k = "ext" /\ Underlying(e.T) = Underlying(T) THEN [e |-> e, ok |-> TRUE]
    ELSE IF e.k \in {"ext", "wrap"} THEN asTypeStructural(T, Unwrap(e))
    ELSE NoMatch(T)

RECURSIVE asTypeOwnLinksOnly(_, _)
\* Mutant of asType: only ExtendedError links are unwrapped.
asTypeOwnLinksOnly(T, e) ==
    IF e.k = "ext" /\ e.T = T THEN [e |-> e, ok |-> TRUE]
    ELSE IF e.k = "ext" THEN asTypeOwnLinksOnly(T, Unwrap(e))
    ELSE NoMatch(T)

RECURSIVE asType(_, _)
\* errors.asType: the first link whose dynamic type is ExtendedError[T],
\* walking the Unwrap chain from e.
asType(T, e) ==
    IF e.k = "ext" /\ e.T = T THEN [e |-> e, ok |-> TRUE]
    ELSE IF e.k \in {"ext", "wrap"}
         THEN IF Unwrap(e) = NilErr
              THEN [e |-> ExtendedError(T, Zero(T), NilErr), ok |-> FALSE]
              ELSE asType(T, Unwrap(e))
         ELSE [e |-> ExtendedError(T, Zero(T), NilErr), ok |-> FALSE]

\* errors.AsType[ExtendedError[T]](err)
AsType(T, e) ==
    IF e = NilErr
    THEN [e |-> ExtendedError(T, Zero(T), NilErr), ok |-> FALSE]
    ELSE asType(T, e)

\* Mutant of Extract: the flag is right, the data is a fresh zero value.
ExtractZeroData(T, e) ==
    LET r == AsType(T, e) IN [Data |-> Zero(T), ok |-> r.ok]

\* func Extract[T any](err error) (T, bool)
Extract(T, e) ==
    LET r == AsType(T, e) IN [Data |-> r.e.Data, ok |-> r.ok]

\* ------------------------------------------------- chain inspection ----
\* The links of e's chain, from e to its root.
RECURSIVE Chain(_)
Chain(e) ==
    IF e = NilErr THEN <<>>
    ELSE IF e.k \in {"ext", "wrap"} THEN <<e>> \o Chain(Unwrap(e))
    ELSE <<e>>

Depth(e) == IF e = NilErr THEN 0 ELSE Len(Chain(e)) - 1

\* The dynamic type of an error value.
DynType(e) ==
    CASE e.k = "nil" -> <<"nil">>
      [] e.k = "base" -> <<"*errorString">>
      [] e.k = "wrap" -> <<"*wrapError">>
      [] e.k = "ext" -> <<"ExtendedError", e.T>>

\* reflect's Type.Comparable: a struct type is comparable iff all its field
\* types are; ExtendedError[Context] has a map field.
Comparable(e) == ~(e.k = "ext" /\ e.T = "Context")

RECURSIVE GoEq(_, _)
\* Go's == on two error interface values: "true", "false" or "panic".
\* Different dynamic types are unequal; identical dynamic types that are
\* not comparable panic; struct fields are compared in source order
\* (err, then Data) and comparison stops at the first difference.
GoEq(a, b) ==
    IF DynType(a) # DynType(b) THEN "false"
    ELSE IF a.k = "ext"
         THEN IF ~Comparable(a) THEN "panic"
              ELSE LET r == GoEq(a.err, b.err)
                   IN IF r # "true" THEN r
                      ELSE IF a.Data = b.Data THEN "true" ELSE "false"
         ELSE IF a = b THEN "true" ELSE "false"

RECURSIVE is(_, _, _)
\* errors.is: walk the chain of e comparing each link with target.
is(e, target, targetComparable) ==
    LET r == IF targetComparable THEN GoEq(e, target) ELSE "false"
    IN IF r # "false" THEN r
       ELSE IF e.k \in {"ext", "wrap"} /\ Unwrap(e) # NilErr
            THEN is(Unwrap(e), target, targetComparable)
            ELSE "false"

\* errors.Is(err, target)
Is(e, target) ==
    IF e = NilErr \/ target = NilErr
    THEN (IF e = target THEN "true" ELSE "false")
    ELSE is(e, target, Comparable(target))

\* --------------------------------------------------------- errclass ----
\* Mutant of GetClass: the nil check is missing.
GetClassNoNilCheck(e) ==
    LET r == Extract("Class", e)
    IN IF r.ok THEN r.Data ELSE Unknown

\* func GetClass(err error) Class
GetClass(e) ==
    IF e = NilErr THEN Nil
    ELSE LET r == Extract("Class", e)
         IN IF r.ok THEN r.Data ELSE Unknown

RECURSIVE applyOpts(_, _)
\* for _, opt := range opts { opt(&options) }
applyOpts(options, opts) ==
    IF opts = <<>> THEN options
    ELSE applyOpts(ApplyOption(Head(opts), options), Tail(opts))

\* Mutant of WrapAs: the only-unknown case is missing from the switch.
WrapAsOnlyUnknownIgnored(e, class, opts) ==
    IF e = NilErr THEN NilErr
    ELSE LET options == applyOpts([restriction |-> wrappingRestrictionNone], opts)
             currentClass == GetClass(e)
         IN CASE options.restriction = wrappingRestrictionOnlyMoreSevere ->
                   IF class > currentClass THEN Extend("Class", class, e) ELSE e
              [] OTHER -> Extend("Class", class, e)

\* Mutant of WrapAs: only-more-severe also wraps on equal severity.
WrapAsNotLessSevere(e, class, opts) ==
    IF e = NilErr THEN NilErr
    ELSE LET options == applyOpts([restriction |-> wrappingRestrictionNone], opts)
             currentClass == GetClass(e)
         IN CASE options.restriction = wrappingRestrictionOnlyUnknown ->
                   IF currentClass = Unknown THEN Extend("Class", class, e) ELSE e
              [] options.restriction = wrappingRestrictionOnlyMoreSevere ->
                   IF class >= currentClass THEN Extend("Class", class, e) ELSE e
              [] OTHER -> Extend("Class", class, e)

\* func WrapAs(err error, class Class, opts ...WrapOption) error
WrapAs(e, class, opts) ==
    IF e = NilErr THEN NilErr
    ELSE LET options == applyOpts([restriction |-> wrappingRestrictionNone], opts)
             currentClass == GetClass(e)
         IN CASE options.restriction = wrappingRestrictionOnlyUnknown ->
                   IF currentClass = Unknown THEN Extend("Class", class, e) ELSE e
              [] options.restriction = wrappingRestrictionOnlyMoreSevere ->
                   IF class > currentClass THEN Extend("Class", class, e) ELSE e
              [] OTHER -> Extend("Class", class, e)

\* ------------------------------------------------------- errcontext ----
\* An attr is [Key, Value]; a map's contents is a function from the keys
\* it holds to their values.
Attr(key, value) == [Key |-> key, Value |-> value]

\* Mutant of MapStore: a key the map already holds keeps its value.
MapStoreKeepFirst(m, key, value) ==
    IF key \in DOMAIN m THEN m
    ELSE [x \in DOMAIN m \cup {key} |-> IF x = key THEN value ELSE m[x]]

\* m[key] = value
MapStore(m, key, value) ==
    [x \in DOMAIN m \cup {key} |-> IF x = key THEN value ELSE m[x]]

RECURSIVE storeAttrs(_, _)
\* for _, attr := range context { m[attr.Key] = attr.Value }
storeAttrs(m, context) ==
    IF context = <<>> THEN m
    ELSE storeAttrs(MapStore(m, Head(context).Key, Head(context).Value),
                    Tail(context))

\* The contents of the map a Context value refers to; a nil map has none.
Deref(c, h) == IF c = 0 THEN EmptyMap ELSE h[c]

\* func Get(err error) Context: the reference, 0 for nil.
Get(e) ==
    IF e = NilErr THEN 0
    ELSE LET r == Extract("Context", e)
         IN IF r.ok THEN r.Data ELSE 0

\* Mutant of Add: the update of an existing Context replaces its contents.
AddReplacesMap(e, context, h) ==
    IF e = NilErr THEN [err |-> NilErr, heap |-> h]
    ELSE IF Len(context) = 0 THEN [err |-> e, heap |-> h]
    ELSE LET existing == Get(e)
         IN IF existing # 0
            THEN [err |-> e,
                  heap |-> [h EXCEPT ![existing] = storeAttrs(EmptyMap, context)]]
            ELSE [err |-> Extend("Context", Len(h) + 1, e),
                  heap |-> Append(h, storeAttrs(EmptyMap, context))]

\* Mutant of Add: a new Context layer is added on every call.
AddAlwaysWraps(e, context, h) ==
    IF e = NilErr THEN [err |-> NilErr, heap |-> h]
    ELSE IF Len(context) = 0 THEN [err |-> e, heap |-> h]
    ELSE [err |-> Extend("Context", Len(h) + 1, e),
          heap |-> Append(h, storeAttrs(Deref(Get(e), h), context))]

\* func Add(err error, context ...slog.Attr) error, with the heap it leaves.
Add(e, context, h) ==
    IF e = NilErr THEN [err |-> NilErr, heap |-> h]
    ELSE IF Len(context) = 0 THEN [err |-> e, heap |-> h]
    ELSE LET existing == Get(e)
         IN IF existing # 0
            THEN [err |-> e,
                  heap |-> [h EXCEPT ![existing] = storeAttrs(h[existing], context)]]
            ELSE [err |-> Extend("Context", Len(h) + 1, e),
                  heap |-> Append(h, storeAttrs(EmptyMap, context))]

RECURSIVE Sorted(_)
\* slices.Sorted(maps.Keys(c)): the keys in increasing order.
Sorted(S) ==
    IF S = {} THEN <<>>
    ELSE LET m == CHOOSE x \in S : \A y \in S : x <= y
         IN <<m>> \o Sorted(S \ {m})

\* func (c Context) Flatten() []slog.Attr, on the contents of c.
Flatten(m) ==
    LET keys == Sorted(DOMAIN m)
    IN [i \in 1..Len(keys) |-> Attr(keys[i], m[keys[i]])]

\* ------------------------------------------------------ the callers ----
\* The payload values a caller passes to Extend for each type; a Context
\* is the nil map or a map allocated before. (Class payloads are attached
\* by WrapAs, which calls Extend at T = Class.)
DataOf(T, h) ==
    CASE T = "Class" -> Class
      [] T = "Context" -> 0..Len(h)
      [] OTHER -> IntVals

\* The attr lists the callers pass to Add: none, each single attr, a key
\* written twice in one call, two keys given in descending order, and a
\* longer list that returns to a key.
AttrSamples ==
    {<<>>}
    \cup {<<Attr(key, value)>> : key \in Keys, value \in Vals}
    \cup {<<Attr(1, 1), Attr(1, 2)>>, <<Attr(2, 1), Attr(1, 2)>>}
    \cup {<<Attr(2, 2), Attr(1, 1), Attr(2, 1)>>}
AttrLists == {context \in AttrSamples : Len(context) <= MaxAttrs}

\* The option lists the callers pass to WrapAs: none, each single option,
\* and lists in which a later option replaces an earlier one.
OptSamples ==
    {<<>>}
    \cup {<<name>> : name \in WrapOption}
    \cup {<<"WithOnlyUnknown", "WithOnlyMoreSevere">>,
           <<"WithOnlyMoreSevere", "WithUnrestricted">>}
    \cup {<<"WithUnrestricted", "WithOnlyMoreSevere", "WithOnlyUnknown">>}
OptLists == {opts \in OptSamples : Len(opts) <= MaxOpts}

\* Ghost: the value of the last attr of context written for each key, and
\* the value written before for the keys context does not name.
LastWritten(w, context) ==
    LET named == {context[i].Key : i \in 1..Len(context)}
        lastIdx(key) == CHOOSE i \in 1..Len(context) :
                            /\ context[i].Key = key
                            /\ \A j \in (i+1)..Len(context) : context[j].Key # key
    IN [key \in DOMAIN w \cup named |->
            IF key \in named THEN context[lastIdx(key)].Value ELSE w[key]]

\* The goroutines that share one error value, and a caller that has not
\* called yet.
Callers == {1, 2}
Idle == [pc |-> "idle", context |-> <<>>, i |-> 0, existing |-> 0,
         seen |-> EmptyMap, ret |-> NilErr]

Init ==
    /\ err \in {NilErr, errTest}
    /\ prev = NilErr
    /\ heap = <<>>
    /\ last = [op |-> "init"]
    /\ written = EmptyMap
    /\ tracked = (err # NilErr)
    /\ steps = 0
    /\ callers = [p \in Callers |-> Idle]
    /\ fatal = FALSE

\* err = xerrors.Extend(data, err)
ExtendStep ==
    \E T \in Types \ {"Class"} : \E data \in DataOf(T, heap) :
        /\ steps < MaxSteps
        /\ steps' = steps + 1
        /\ err' = Extend(T, data, err)
        /\ prev' = err
        /\ last' = [op |-> "Extend", T |-> T, data |-> data]
        /\ tracked' = (tracked /\ T # "Context")
        /\ written' = IF tracked' THEN written ELSE EmptyMap
        /\ UNCHANGED <<heap, callers, fatal>>

\* err = xerrors.Extend(errcontext.Context{}, err): the caller makes a map.
ExtendFreshStep ==
    /\ steps < MaxSteps
    /\ steps' = steps + 1
    /\ heap' = Append(heap, EmptyMap)
    /\ err' = Extend("Context", Len(heap) + 1, err)
    /\ prev' = err
    /\ last' = [op |-> "Extend", T |-> "Context", data |-> Len(heap) + 1]
    /\ tracked' = FALSE
    /\ written' = EmptyMap
    /\ UNCHANGED <<callers, fatal>>

\* err = fmt.Errorf("...: %w", err)
ForeignWrapStep ==
    /\ steps < MaxSteps
    /\ err # NilErr
    /\ steps' = steps + 1
    /\ err' = ForeignWrap(err)
    /\ prev' = err
    /\ last' = [op |-> "ForeignWrap"]
    /\ UNCHANGED <<heap, written, tracked, callers, fatal>>

\* err = errclass.WrapAs(err, class, opts...)
WrapAsStep ==
    \E class \in Class : \E opts \in OptLists :
        /\ steps < MaxSteps
        /\ steps' = steps + 1
        /\ err' = WrapAs(err, class, opts)
        /\ prev' = err
        /\ last' = [op |-> "WrapAs", class |-> class, opts |-> opts]
        /\ UNCHANGED <<heap, written, tracked, callers, fatal>>

\* err = errcontext.Add(err, context...)
AddStep ==
    \E context \in AttrLists :
        LET r == Add(err, context, heap)
        IN /\ steps < MaxSteps
           /\ steps' = steps + 1
           /\ err' = r.err
           /\ heap' = r.heap
           /\ prev' = err
           /\ last' = [op |-> "Add", context |-> context]
           /\ written' = IF tracked THEN LastWritten(written, context) ELSE EmptyMap
           /\ UNCHANGED <<tracked, callers, fatal>>

Next ==
    \/ AddStep
    \/ WrapAsStep
    \/ ExtendStep
    \/ ExtendFreshStep
    \/ ForeignWrapStep

Spec == Init /\ [][Next]_vars


\* ------------------------------------------------ concurrent callers ----
\* Two goroutines hold the same error value, which has a Context attached,
\* and each calls errcontext.Add or reads the Context that errcontext.Get
\* returns. Add runs as the code does: Get, then one map store per attr.
\* A map store takes time (it begins, then its value lands); a store or a
\* read that begins while another caller's store on the same map is under
\* way is a data race, which the runtime either detects, stopping the
\* program ("fatal error: concurrent map writes"), or lets proceed.
SharedMap == storeAttrs(EmptyMap, <<Attr(1, 1)>>)

InitConc ==
    /\ LET r == Add(errTest, <<Attr(1, 1)>>, <<>>)
       IN /\ heap = r.heap
          /\ err \in {r.err, ForeignWrap(r.err), WrapAs(r.err, Transient, <<>>)}
    /\ prev = NilErr
    /\ last = [op |-> "init"]
    /\ written = EmptyMap
    /\ tracked = FALSE
    /\ steps = 0
    /\ callers = [p \in Callers |-> Idle]
    /\ fatal = FALSE

\* Mutant of Waits: a caller waits while another caller is inside the
\* update loop of Add, as if Add held a lock around it.
WaitsForWriter(p, c) == \E q \in Callers \ {p} : c[q].pc \in {"loop", "store"}

\* Add and Get take no lock and wait for nothing: a caller's step never
\* depends on where the other callers are.
Waits(p, c) == FALSE

\* Another caller's store on the map p is about to access is under way.
Racing(p, c) ==
    \E q \in Callers \ {p} : c[q].pc = "store" /\ c[q].existing = c[p].existing

ConcFrame == UNCHANGED <<err, prev, last, written, tracked, steps>>

\* p calls errcontext.Add(err, context...): the nil and no-attr returns,
\* then existing := Get(err); without a Context the call builds its own
\* map and wrapper and returns.
CallAdd(p) ==
    \E context \in AttrLists :
        /\ ~fatal
        /\ ~Waits(p, callers)
        /\ callers[p].pc = "idle"
        /\ IF err = NilErr \/ Len(context) = 0
           THEN /\ callers' = [callers EXCEPT ![p].pc = "done", ![p].ret = err,
                                              ![p].context = context]
                /\ UNCHANGED heap
           ELSE IF Get(err) # 0
           THEN /\ callers' = [callers EXCEPT ![p].pc = "loop", ![p].i = 1,
                                              ![p].context = context,
                                              ![p].existing = Get(err)]
                /\ UNCHANGED heap
           ELSE /\ callers' = [callers EXCEPT ![p].pc = "done",
                                              ![p].context = context,
                                              ![p].ret = Add(err, context, heap).err]
                /\ heap' = Add(err, context, heap).heap
        /\ UNCHANGED fatal
        /\ ConcFrame

\* existing[attr.Key] = attr.Value begins.
BeginStore(p) ==
    /\ ~fatal
    /\ ~Waits(p, callers)
    /\ callers[p].pc = "loop"
    /\ callers' = [callers EXCEPT ![p].pc = "store"]
    /\ UNCHANGED <<heap, fatal>>
    /\ ConcFrame

\* existing[attr.Key] = attr.Value lands; after the last attr, return err.
EndStore(p) ==
    LET c == callers[p]
        attr == c.context[c.i]
    IN /\ ~fatal
       /\ ~Waits(p, callers)
       /\ c.pc = "store"
       /\ heap' = [heap EXCEPT ![c.existing] =
                                   MapStore(heap[c.existing], attr.Key, attr.Value)]
       /\ callers' = IF c.i = Len(c.context)
                     THEN [callers EXCEPT ![p].pc = "done", ![p].i = c.i + 1,
                                          ![p].ret = err]
                     ELSE [callers EXCEPT ![p].pc = "loop", ![p].i = c.i + 1]
       /\ UNCHANGED fatal
       /\ ConcFrame

\* p calls errcontext.Get(err).
CallGet(p) ==
    /\ ~fatal
    /\ ~Waits(p, callers)
    /\ callers[p].pc = "idle"
    /\ callers' = [callers EXCEPT ![p].pc = "read", ![p].existing = Get(err)]
    /\ UNCHANGED <<heap, fatal>>
    /\ ConcFrame

\* p reads the map Get returned.
Read(p) ==
    /\ ~fatal
    /\ ~Waits(p, callers)
    /\ callers[p].pc = "read"
    /\ callers' = [callers EXCEPT ![p].pc = "done",
                                  ![p].seen = Deref(callers[p].existing, heap)]
    /\ UNCHANGED <<heap, fatal>>
    /\ ConcFrame

\* The runtime detects the race of p's store or read with a store under
\* way and stops the program.
Fatal(p) ==
    /\ ~fatal
    /\ callers[p].pc \in {"loop", "read"}
    /\ Racing(p, callers)
    /\ fatal' = TRUE
    /\ UNCHANGED <<heap, callers>>
    /\ ConcFrame

CallAddStep == \E p \in Callers : CallAdd(p)
BeginStoreStep == \E p \in Callers : BeginStore(p)
EndStoreStep == \E p \in Callers : EndStore(p)
CallGetStep == \E p \in Callers : CallGet(p)
ReadStep == \E p \in Callers : Read(p)
FatalStep == \E p \in Callers : Fatal(p)

NextConc ==
    \/ CallAddStep
    \/ BeginStoreStep
    \/ EndStoreStep
    \/ CallGetStep
    \/ ReadStep
    \/ FatalStep

SpecConc == InitConc /\ [][NextConc]_vars

\* ------------------------------------------------------- properties ----
\* Some link of e's chain is an ExtendedError[T].
HasLink(T, e) ==
    \E i \in 1..Len(Chain(e)) : Chain(e)[i].k = "ext" /\ Chain(e)[i].T = T

\* The last call put a new ExtendedError link on top of prev.
Wrapped == err # prev

\* C1: Nil propagation. Extend(d, nil), WrapAs(nil, c, opts...) and
\* Add(nil, attrs...) all return nil: no wrapper is made out of no error.
C1_NilPropagation ==
    (last.op \in {"Extend", "WrapAs", "Add"} /\ prev = NilErr) => err = NilErr

C1_Witness ==
    /\ last.op = "Add"
    /\ prev = NilErr
    /\ Len(last.context) = 2
    /\ err = NilErr

\* C2: Round-trip. For non-nil e and every d of type T,
\* Extract[T](Extend(d, e)) is (d, true); the same holds of the class
\* WrapAs attaches through Extend.
C2_RoundTrip ==
    /\ (last.op = "Extend" /\ prev # NilErr) =>
           Extract(last.T, err) = [Data |-> last.data, ok |-> TRUE]
    /\ (last.op = "WrapAs" /\ Wrapped) =>
           Extract("Class", err) = [Data |-> last.class, ok |-> TRUE]

C2_Witness ==
    /\ last.op = "Extend"
    /\ prev # NilErr
    /\ last.T = "A"
    /\ last.data = 1
    /\ Depth(err) = 3

\* C3: Nearest wins. For non-nil e and d1, d2 of one type T,
\* Extract[T](Extend(d2, Extend(d1, e))) is (d2, true), and Extract[T] of
\* the immediate cause of the outer value is (d1, true).
C3_NearestWins ==
    /\ (last.op = "Extend" /\ prev.k = "ext" /\ prev.T = last.T) =>
           /\ Extract(last.T, err) = [Data |-> last.data, ok |-> TRUE]
           /\ Extract(last.T, Unwrap(err)) = [Data |-> prev.Data, ok |-> TRUE]
    /\ (last.op = "WrapAs" /\ Wrapped /\ prev.k = "ext" /\ prev.T = "Class") =>
           /\ Extract("Class", err) = [Data |-> last.class, ok |-> TRUE]
           /\ Extract("Class", Unwrap(err)) = [Data |-> prev.Data, ok |-> TRUE]

C3_Witness ==
    /\ last.op = "Extend"
    /\ prev.k = "ext"
    /\ prev.T = last.T
    /\ prev.Data # last.data

\* C4: Miss correctness. For the nil error and for every chain without an
\* ExtendedError[T] link, Extract[T] is (zero value of T, false).
C4_MissCorrectness ==
    \A T \in Types :
        (err = NilErr \/ ~HasLink(T, err)) =>
            Extract(T, err) = [Data |-> Zero(T), ok |-> FALSE]

C4_Witness ==
    /\ err.k = "wrap"
    /\ HasLink("A", err)
    /\ HasLink("Context", err)
    /\ ~HasLink("B", err)
    /\ Extract("A", err).Data = 1

\* No ExtendedError[Context] value is nested in e above the first pointer:
\* Go's == on e neither is skipped by errors.Is nor panics.
RECURSIVE DeepComparable(_)
DeepComparable(e) ==
    IF e.k = "ext" THEN Comparable(e) /\ DeepComparable(e.err) ELSE TRUE

\* C5: Chain preservation. For non-nil e the immediate cause of
\* Extend(d, e) is exactly e, and errors.Is of the extended error against
\* e, and against every error already in e's chain, succeeds.
C5_ChainPreservation ==
    (last.op \in {"Extend", "WrapAs", "Add"} /\ Wrapped) =>
        /\ Unwrap(err) = prev
        /\ \A i \in 1..Len(Chain(prev)) : Is(err, Chain(prev)[i]) = "true"

\* C5, the part the code keeps: the immediate cause is exactly e, and
\* errors.Is succeeds against every error of e's chain whose value Go can
\* compare (the sentinel among them); a match that errors.Is found on e it
\* still finds on Extend(d, e).
C5_ComparableTargets ==
    (last.op \in {"Extend", "WrapAs", "Add"} /\ Wrapped) =>
        /\ Unwrap(err) = prev
        /\ \A i \in 1..Len(Chain(prev)) :
               LET target == Chain(prev)[i]
               IN /\ DeepComparable(target) => Is(err, target) = "true"
                  /\ Is(prev, target) = "true" => Is(err, target) = "true"

\* The first link of e's chain that is not a *fmt.wrapError.
RECURSIVE StripForeign(_)
StripForeign(e) == IF e.k = "wrap" THEN StripForeign(e.err) ELSE e

\* C6: Interleaving with foreign wrappers. If e2 wraps Extend(d, e1) in
\* any number of other single-cause wrappers, Extract[T](e2) is (d, true):
\* extraction skips the foreign links, so wrapping changes no Extract result.
C6_ForeignInterleaving ==
    last.op = "ForeignWrap" =>
        /\ LET inner == StripForeign(err)
           IN inner.k = "ext" =>
                  Extract(inner.T, err) = [Data |-> inner.Data, ok |-> TRUE]
        /\ \A T \in Types : Extract(T, err) = Extract(T, prev)

C6_Witness ==
    /\ last.op = "ForeignWrap"
    /\ prev.k = "wrap"
    /\ prev.err.k = "ext"
    /\ prev.err.T = "A"
    /\ Extract("A", err) = [Data |-> 1, ok |-> TRUE]

\* Every ExtendedError link of e's chain is of type T, and there is one.
OnlyLinksOf(T, e) ==
    /\ HasLink(T, e)
    /\ \A i \in 1..Len(Chain(e)) : Chain(e)[i].k = "ext" => Chain(e)[i].T = T

\* C7: Type distinctness and independence. Extract[B] ignores every
\* ExtendedError[A] link, also when A and B have the same representation:
\* a chain extended only with A misses for B, and extending with a value of
\* type A never changes the result of Extract[B].
C7_TypeDistinctness ==
    /\ (last.op = "Extend" /\ prev # NilErr) =>
           \A T \in Types \ {last.T} : Extract(T, err) = Extract(T, prev)
    /\ (last.op = "WrapAs" /\ Wrapped) =>
           \A T \in Types \ {"Class"} : Extract(T, err) = Extract(T, prev)
    /\ \A T \in Types :
           OnlyLinksOf(T, err) =>
               \A U \in Types \ {T} :
                   Extract(U, err) = [Data |-> Zero(U), ok |-> FALSE]

C7_Witness ==
    /\ last.op = "Extend"
    /\ last.T = "A"
    /\ last.data = 1
    /\ prev.k = "ext"
    /\ prev.T = "B"
    /\ Extract("B", err) = [Data |-> 0, ok |-> TRUE]
    /\ Extract("A", prev).ok = FALSE

Max(a, b) == IF a >= b THEN a ELSE b

\* The number of ExtendedError[Context] links in e's chain.
CtxLinks(e) ==
    Cardinality({i \in 1..Len(Chain(e)) :
                    Chain(e)[i].k = "ext" /\ Chain(e)[i].T = "Context"})

\* C8: Context accumulation, last write wins. From a non-nil error without
\* Context, after any sequence of Add calls, with wrappers of other kinds in
\* between, Get of the final error is the map holding for every key written
\* the value of the last attr written for it, and Flatten is exactly these
\* pairs in increasing key order.
C8_ContextAccumulation ==
    tracked =>
        LET m == Deref(Get(err), heap)
            f == Flatten(m)
        IN /\ m = written
           /\ Len(f) = Cardinality(DOMAIN written)
           /\ \A i \in 1..Len(f) :
                  /\ f[i].Key \in DOMAIN written
                  /\ f[i].Value = written[f[i].Key]
           /\ \A i, j \in 1..Len(f) : i < j => f[i].Key < f[j].Key

C8_Witness ==
    /\ tracked
    /\ last.op = "Add"
    /\ last.context = <<Attr(1, 1), Attr(1, 2)>>
    /\ err.k = "ext"
    /\ err.T = "Class"
    /\ Flatten(Deref(Get(err), heap)) = <<Attr(1, 2), Attr(2, 1)>>

\* C9 as claimed: Add makes a new wrapper only for a non-nil error with
\* attrs and no Context link in its chain; with a Context link anywhere in
\* the chain it returns err itself, as it does without attrs; so Add never
\* takes a chain to more than one Context link.
C9_SingleContextLayer ==
    last.op = "Add" =>
        /\ Wrapped =>
               /\ prev # NilErr
               /\ Len(last.context) > 0
               /\ ~HasLink("Context", prev)
        /\ HasLink("Context", prev) => err = prev
        /\ Len(last.context) = 0 => err = prev
        /\ CtxLinks(err) <= Max(1, CtxLinks(prev))

\* C9, amended: Add makes a new wrapper only for a non-nil error with attrs
\* for which Get is nil (no Context link, or the nearest one holds a nil
\* map); when Get finds a map, Add stores the attrs in that map and returns
\* err itself, as it does without attrs. A chain built from a Context-free
\* error by Add and wrappers of other kinds never has more than one Context
\* link, and the cause of its Context link has no Context.
C9_SingleContextLayerAmended ==
    last.op = "Add" =>
        /\ Wrapped =>
               /\ prev # NilErr
               /\ Len(last.context) > 0
               /\ Get(prev) = 0
               /\ err.k = "ext" /\ err.T = "Context" /\ Unwrap(err) = prev
        /\ Get(prev) # 0 =>
               /\ err = prev
               /\ \A i \in 1..Len(last.context) :
                      heap[Get(prev)][last.context[i].Key]
                          = LastWritten(EmptyMap, last.context)[last.context[i].Key]
        /\ Len(last.context) = 0 => err = prev
        /\ (Get(prev) # 0 \/ ~HasLink("Context", prev)) =>
               CtxLinks(err) <= Max(1, CtxLinks(prev))
        /\ tracked =>
               /\ CtxLinks(err) <= 1
               /\ \A i \in 1..Len(Chain(err)) :
                      (Chain(err)[i].k = "ext" /\ Chain(err)[i].T = "Context") =>
                          Get(Unwrap(Chain(err)[i])) = 0

C9_Witness ==
    /\ last.op = "Add"
    /\ tracked
    /\ Len(last.context) > 0
    /\ err = prev
    /\ err.k = "wrap"
    /\ Get(err) # 0
    /\ DOMAIN heap[Get(err)] = Keys

\* C10: No downgrade. For non-nil err, WrapAs with WithOnlyMoreSevere in
\* effect returns a value whose class is the maximum of the class of err
\* and c: it wraps when c is strictly greater and returns err itself
\* otherwise, so the class of the error never decreases.
C10_NoDowngrade ==
    (/\ last.op = "WrapAs"
     /\ prev # NilErr
     /\ last.opts # <<>>
     /\ last.opts[Len(last.opts)] = "WithOnlyMoreSevere") =>
        /\ GetClass(err) = Max(GetClass(prev), last.class)
        /\ GetClass(err) >= GetClass(prev)
        /\ last.class > GetClass(prev) =>
               err = ExtendedError("Class", last.class, prev)
        /\ last.class <= GetClass(prev) => err = prev

C10_Witness ==
    /\ last.op = "WrapAs"
    /\ last.opts = <<"WithOnlyMoreSevere">>
    /\ last.class = Transient
    /\ err = prev
    /\ err.k = "ext"
    /\ err.T = "Class"
    /\ err.Data = Persistent
    /\ GetClass(Unwrap(err)) = Transient

\* The option in effect for a WrapAs call: the last one given, and
\* WithUnrestricted when none is given.
InEffect(opts) == IF opts = <<>> THEN "WithUnrestricted" ELSE opts[Len(opts)]

\* The payload of the outermost ExtendedError[T] link of e's chain.
NearestData(T, e) ==
    LET c == Chain(e)
        first == CHOOSE i \in 1..Len(c) :
                     /\ c[i].k = "ext" /\ c[i].T = T
                     /\ \A j \in 1..(i-1) : ~(c[j].k = "ext" /\ c[j].T = T)
    IN c[first].Data

\* C11: Only-unknown policy. For non-nil err, WrapAs with WithOnlyUnknown in
\* effect attaches c only when the current class of err is Unknown; an
\* error whose current class is another one is returned unchanged, the same
\* value with the same class, also when c is more severe.
C11_OnlyUnknown ==
    (/\ last.op = "WrapAs"
     /\ prev # NilErr
     /\ InEffect(last.opts) = "WithOnlyUnknown") =>
        /\ Wrapped => GetClass(prev) = Unknown
        /\ GetClass(prev) = Unknown =>
               err = ExtendedError("Class", last.class, prev)
        /\ GetClass(prev) # Unknown =>
               /\ err = prev
               /\ GetClass(err) = GetClass(prev)

C11_Witness ==
    /\ last.op = "WrapAs"
    /\ last.opts = <<"WithOnlyUnknown">>
    /\ last.class = Panic
    /\ GetClass(prev) = Transient
    /\ err = prev
    /\ GetClass(err) = Transient

\* C12: GetClass is total and reads the nearest class: Nil for the nil
\* error, Unknown for a non-nil error without a Class link, otherwise the
\* class of the outermost Class link; for non-nil err, GetClass of
\* WrapAs(err, c) with no option or WithUnrestricted in effect is c,
\* whatever class err carried.
C12_GetClassNearest ==
    /\ err = NilErr => GetClass(err) = Nil
    /\ (err # NilErr /\ ~HasLink("Class", err)) => GetClass(err) = Unknown
    /\ HasLink("Class", err) => GetClass(err) = NearestData("Class", err)
    /\ (/\ last.op = "WrapAs"
        /\ prev # NilErr
        /\ InEffect(last.opts) = "WithUnrestricted") =>
           /\ GetClass(err) = last.class
           /\ Unwrap(err) = prev

C12_Witness ==
    /\ last.op = "WrapAs"
    /\ last.opts = <<"WithUnrestricted">>
    /\ last.class = Transient
    /\ GetClass(prev) = Persistent
    /\ GetClass(err) = Transient
    /\ err.k = "ext"
    /\ err.err.k = "wrap"

\* The error values a caller can hold that contain the links of e: e
\* itself and the wrappers each operation builds over it.
Over(e, h) ==
    {e}
    \cup {ForeignWrap(e)}
    \cup {Extend(T, data, e) : T \in Types \ {"Class", "Context"}, data \in IntVals}
    \cup {Extend("Context", c, e) : c \in 0..Len(h)}
    \cup {WrapAs(e, class, <<>>) : class \in Class}

\* Every key context names is read through Get(v) with the value of its
\* last attr.
Visible(v, context, h) ==
    \A i \in 1..Len(context) :
        /\ context[i].Key \in DOMAIN Deref(Get(v), h)
        /\ Deref(Get(v), h)[context[i].Key] =
               LastWritten(EmptyMap, context)[context[i].Key]

\* The step is an Add that updates the Context err already has.
AddInPlace ==
    /\ last'.op = "Add"
    /\ err # NilErr
    /\ Len(last'.context) > 0
    /\ Get(err) # 0

\* What every step leaves alone: the value held before is the new value or
\* the cause of its one new outermost link, so no link of it, no payload
\* reference and no cause changes; no map is removed; the contents of a
\* map change only when Add updates the Context the error has, and then
\* the keys it held stay, with their values unless the call names them.
FrameOfStep ==
    /\ \/ err' = err
       \/ /\ err' # NilErr
          /\ Unwrap(err') = err
          /\ Chain(err') = <<err'>> \o Chain(err)
    /\ Len(heap') >= Len(heap)
    /\ \A r \in 1..Len(heap) :
           heap'[r] # heap[r] =>
               /\ AddInPlace
               /\ r = Get(err)
               /\ err' = err
               /\ Get(err') = r
               /\ DOMAIN heap[r] \subseteq DOMAIN heap'[r]
               /\ \A key \in DOMAIN heap[r] :
                      (\A i \in 1..Len(last'.context) : last'.context[i].Key # key)
                          => heap'[r][key] = heap[r][key]

\* C13 as stated: in-place update touches only the payload contents, and
\* the keys Add writes into an existing Context are read through Get on
\* every error value whose chain contains that Context link: the value held
\* before the call and every wrapper built over it.
C13_FrameEffect ==
    [][/\ FrameOfStep
       /\ AddInPlace =>
              \A v \in Over(err, heap') : Visible(v, last'.context, heap')]_vars

\* C13, amended: as above, for the value held before the call and the
\* wrappers built over it that put no Context link of their own in front
\* of the updated one; Get on a wrapper that carries its own Context reads
\* that wrapper's map.
C13_FrameEffectAmended ==
    [][/\ FrameOfStep
       /\ AddInPlace =>
              \A v \in Over(err, heap') :
                  \/ v # err /\ v.k = "ext" /\ v.T = "Context"
                  \/ /\ Get(v) = Get(err)
                     /\ Visible(v, last'.context, heap')]_vars

C13_Witness ==
    /\ last.op = "Add"
    /\ Len(last.context) = 2
    /\ err = prev
    /\ err.k = "wrap"
    /\ Get(err) # 0
    /\ Cardinality(DOMAIN heap[Get(err)]) = 2
    /\ Visible(ForeignWrap(err), last.context, heap)

\* Caller p's next step of its call, whatever it is.
CallerStep(p) ==
    CallAdd(p) \/ BeginStore(p) \/ EndStore(p) \/ CallGet(p) \/ Read(p)

\* The map a writer updates holds the keys of the attrs it has stored.
StoredKeysPresent ==
    \A p \in Callers :
        callers[p].pc \in {"loop", "store", "done"} =>
            \A j \in 1..(callers[p].i - 1) :
                callers[p].context[j].Key \in DOMAIN heap[callers[p].existing]

\* C14: no synchronization on attached payloads. While the program runs,
\* a caller that has not returned can always take its next step of Add or
\* Get, wherever the other caller is, also in the middle of a map store on
\* the same map; a writer stores its attrs one at a time into the shared
\* map, where the other caller reads them.
C14_NoSynchronization ==
    /\ ~fatal => \A p \in Callers :
                     callers[p].pc # "done" => ENABLED CallerStep(p)
    /\ StoredKeysPresent
    /\ \A p \in Callers :
           callers[p].pc \in {"loop", "store", "read"} =>
               callers[p].existing = Get(err)

\* A reader has seen the shared map with the first attr of a two-attr Add
\* stored and the second not yet.
C14_Witness ==
    \E p \in Callers : \E q \in Callers \ {p} :
        /\ callers[q].pc \in {"loop", "store"}
        /\ Len(callers[q].context) = 2
        /\ callers[q].i = 2
        /\ callers[p].pc = "done"
        /\ callers[p].existing = callers[q].existing
        /\ callers[p].seen = storeAttrs(SharedMap, SubSeq(callers[q].context, 1, 1))
        /\ callers[p].seen # SharedMap
        /\ callers[p].seen # storeAttrs(SharedMap, callers[q].context)

\* Two writers are in the middle of a store on the same map.
TwoWritersAtOnce ==
    \E p \in Callers : \E q \in Callers \ {p} :
        /\ callers[p].pc = "store"
        /\ callers[q].pc = "store"
        /\ callers[p].existing = callers[q].existing

\* C15: Nil class means nil error. GetClass(err) equals Nil only when err
\* is nil: after any sequence of WrapAs calls, with any classes and any
\* options, on a non-nil error, GetClass of the result is never Nil.
C15_NilMeansNilError == GetClass(err) = Nil => err = NilErr

======================================================================
